---- MODULE Spec2Model ----
(***************************************************************************)
(* Agent execution contract of example-app-template.                       *)
(*                                                                         *)
(*   src/src/agents/base_agent.py    BaseAgent: history list, log_execution *)
(*   src/src/agents/sample_agent.py  SampleAgent: execute/analyze/generate  *)
(*   src/src/api/routes.py           HTTP handlers, one fresh agent each    *)
(*                                                                         *)
(* Python objects live on a heap: an agent holds a REFERENCE to its list   *)
(* of execution records, and get_execution_history hands that reference    *)
(* out.  execute is a coroutine with one suspension point, the await on    *)
(* asyncio.sleep: it is modelled as two steps (start, resume), so several  *)
(* calls may be suspended at once.  Wall-clock time is a tick counter, one *)
(* tick being the length of the artificial delay.                          *)
(***************************************************************************)
EXTENDS Integers, Sequences, FiniteSets, TLC

VARIABLES
    agents,     \* sequence of constructed SampleAgent objects (index = identity)
    heap,       \* sequence of list objects (index = reference); each a sequence of records
    pending,    \* execute coroutines suspended at the await, in start order
    now,        \* datetime.utcnow(), in ticks
    returned,   \* what the most recently completed operation handed to its caller
    view,       \* the list reference the caller keeps from get_execution_history (0: none)
    started,    \* observation: the task of every execute call, in the order the calls began
    finished,   \* observation: the calls (indices into started) in the order they completed
    cleared,    \* observation: clear_history has been called
    environ,    \* the process environment: variable name -> value, for the names that are set
    dotenv,     \* the .env file: variable name -> value, for the names it gives
    settings    \* config.settings, the module-level Settings() instance

cfg == <<environ, dotenv, settings>>

vars == <<agents, heap, pending, now, returned, view, started, finished, cleared,
          environ, dotenv, settings>>

----------------------------------------------------------------------------
(* Bounds of the model. *)

MaxTime == 2        \* the clock stops after this many ticks
MaxCalls == 2       \* execute calls begun in one behaviour
MaxAgents == 3      \* agents constructed by request handlers in one behaviour

(* Program constants. *)

SleepTicks == 1             \* await asyncio.sleep(0.5): one tick
AGENT_MAX_ITERATIONS == 10
AGENT_TIMEOUT == 300
AGENT_TEMPERATURE == 7      \* 0.7, in tenths
AGENT_MODEL == "gpt-4"

----------------------------------------------------------------------------
(* Python values. *)

\* A dict is the sequence of its (key, value) items in insertion order; a
\* list is the sequence of its elements; None has no items.
None == [kind |-> "none", items |-> <<>>]
Dict(items) == [kind |-> "dict", items |-> items]
List(items) == [kind |-> "list", items |-> items]

\* bool(x) for None, dict and list.
Truthy(x) == x.kind # "none" /\ Len(x.items) > 0

\* list(d.keys())
Keys(d) == [i \in 1..Len(d.items) |-> d.items[i][1]]

\* d.get(key, default)
DictGet(d, key, default) ==
    IF \E i \in 1..Len(d.items) : d.items[i][1] = key
    THEN LET i == CHOOSE j \in 1..Len(d.items) : d.items[j][1] = key
         IN d.items[i][2]
    ELSE default

\* x or {}
OrEmptyDict(x) == IF Truthy(x) THEN x ELSE Dict(<<>>)

Last(s) == s[Len(s)]
Remove(s, i) == SubSeq(s, 1, i - 1) \o SubSeq(s, i + 1, Len(s))

----------------------------------------------------------------------------
(* Inputs. *)

Tasks == {"", "task 1"}
Data == {"test data"}
Prompts == {"test prompt"}

EmptyContext == Dict(<<>>)
TestContext == Dict(<< <<"source", "test">>, <<"user_id", "123">> >>)
ListContext == List(<<"source">>)

\* What a caller of execute may pass as context.
Contexts == {None, EmptyContext, TestContext, ListContext}
\* What the request model (Optional[Dict[str, Any]]) lets through.
RequestContexts == {None, EmptyContext, TestContext}
AgentConfigs == {None, Dict(<< <<"model", "gpt-3.5-turbo">> >>)}

\* The calls of execute tried: every task without a context, and one task
\* with every context.
ExecuteInputs ==
    {[task |-> t, context |-> None] : t \in Tasks}
        \cup {[task |-> "task 1", context |-> c] : c \in Contexts}

\* The bodies of POST /agent/execute tried: the same, within what the request
\* model lets through, and one task with every agent_config.
RequestInputs ==
    {[task |-> t, context |-> None, agent_config |-> None] : t \in Tasks}
        \cup {[task |-> "task 1", context |-> c, agent_config |-> None] : c \in RequestContexts}
        \cup {[task |-> "task 1", context |-> None, agent_config |-> k] : k \in AgentConfigs}

----------------------------------------------------------------------------
(* config.Settings.  A field takes its value from the process environment,  *)
(* else from the .env file, else its default; names are case sensitive.     *)
(* pydantic-settings validates defaults too (BaseSettings sets              *)
(* validate_default, and the class's model_config does not unset it), and   *)
(* validates the fields in the order the class declares them.               *)

SettingNames == {"APP_ENV", "SECRET_KEY", "JWT_SECRET"}
ForbiddenSecret == "change-me-in-production"

Default(name) == IF name = "APP_ENV" THEN "development" ELSE ForbiddenSecret

Unset == [n \in {} |-> ""]

\* The raw value of field name.
FieldValue(env, file, name) ==
    IF name \in DOMAIN env THEN env[name]
    ELSE IF name \in DOMAIN file THEN file[name]
    ELSE Default(name)

\* validate_secrets_in_production(cls, v, info): whether it returns v (it
\* raises ValueError otherwise).  data is info.data, the fields validated so far.
validate_secrets_unless_development(v, data) ==
    LET app_env == IF "APP_ENV" \in DOMAIN data THEN data["APP_ENV"] ELSE "development"
    IN ~(app_env # "development" /\ v = ForbiddenSecret)

validate_secrets_in_production(v, data) ==
    LET app_env == IF "APP_ENV" \in DOMAIN data THEN data["APP_ENV"] ELSE "development"
    IN ~(app_env = "production" /\ v = ForbiddenSecret)

\* Settings(): the fields that fail validation and, when none does, the instance.
Settings(env, file) ==
    LET app_env == FieldValue(env, file, "APP_ENV")
        secret_key == FieldValue(env, file, "SECRET_KEY")
        jwt_secret == FieldValue(env, file, "JWT_SECRET")
        data1 == [n \in {"APP_ENV"} |-> app_env]
        ok1 == validate_secrets_in_production(secret_key, data1)
        data2 == IF ok1
                 THEN [n \in {"APP_ENV", "SECRET_KEY"} |->
                          IF n = "APP_ENV" THEN app_env ELSE secret_key]
                 ELSE data1
        ok2 == validate_secrets_in_production(jwt_secret, data2)
        errors == (IF ok1 THEN {} ELSE {"SECRET_KEY"}) \cup (IF ok2 THEN {} ELSE {"JWT_SECRET"})
    IN IF errors = {}
       THEN [state |-> "loaded", errors |-> {},
             APP_ENV |-> app_env, SECRET_KEY |-> secret_key, JWT_SECRET |-> jwt_secret]
       ELSE [state |-> "failed", errors |-> errors]

----------------------------------------------------------------------------
(* BaseAgent. *)

\* BaseAgent.__init__ on heap h: the new agent and the heap with its new,
\* empty list.
BaseAgentInitShared(h, name, model, temperature, max_iterations, timeout) ==
    [heap |-> IF h = <<>> THEN << <<>> >> ELSE h,
     agent |-> [name |-> name, model |-> model, temperature |-> temperature,
                max_iterations |-> max_iterations, timeout |-> timeout,
                execution_history |-> 1]]

BaseAgentInit(h, name, model, temperature, max_iterations, timeout) ==
    [heap |-> Append(h, <<>>),
     agent |-> [name |-> name, model |-> model, temperature |-> temperature,
                max_iterations |-> max_iterations, timeout |-> timeout,
                execution_history |-> Len(h) + 1]]

\* BaseAgent.log_execution: the list self.execution_history after the call,
\* given the list hist before it and the clock t.
log_execution_prepend(self, hist, task, result, duration, t) ==
    <<[timestamp |-> t, agent |-> self.name, task |-> task, result |-> result,
       duration |-> duration, model |-> self.model]>> \o hist

log_execution_overwrite(self, hist, task, result, duration, t) ==
    LET rec == [timestamp |-> t, agent |-> self.name, task |-> task, result |-> result,
                duration |-> duration, model |-> self.model]
    IN IF hist = <<>> THEN <<rec>> ELSE [hist EXCEPT ![Len(hist)] = rec]

log_execution(self, hist, task, result, duration, t) ==
    Append(hist, [timestamp |-> t, agent |-> self.name, task |-> task,
                  result |-> result, duration |-> duration, model |-> self.model])

\* BaseAgent.get_execution_history: the reference it returns.
get_execution_history(self) == self.execution_history

\* BaseAgent.clear_history: the list after self.execution_history.clear().
clear_history_pop(hist) == IF hist = <<>> THEN hist ELSE SubSeq(hist, 1, Len(hist) - 1)

clear_history(hist) == <<>>

----------------------------------------------------------------------------
(* SampleAgent. *)

\* SampleAgent.__init__(**kwargs)
SampleAgentInit(h, kwargs) ==
    BaseAgentInit(h, "sample-agent",
                  DictGet(kwargs, "model", AGENT_MODEL),
                  DictGet(kwargs, "temperature", AGENT_TEMPERATURE),
                  DictGet(kwargs, "max_iterations", AGENT_MAX_ITERATIONS),
                  DictGet(kwargs, "timeout", AGENT_TIMEOUT))

\* The result mapping the try block builds before the context is looked at.
success_result_echo(self, task, context, t) ==
    [status |-> "success", task |-> task, response |-> task,
     agent |-> self.name, model |-> self.model,
     context_provided |-> Truthy(context), timestamp |-> t]

success_result(self, task, context, t) ==
    [status |-> "success", task |-> task, response |-> "Processed task: " \o task,
     agent |-> self.name, model |-> self.model,
     context_provided |-> (context.kind # "none"), timestamp |-> t]

\* result["context_keys"] = list(context.keys())
with_context_keys(result, context) ==
    [k \in DOMAIN result \cup {"context_keys"} |->
        IF k = "context_keys" THEN Keys(context) ELSE result[k]]

\* The try block of execute after the await: either the result it builds and
\* logs, or the exception raised in it.  A truthy context that is no mapping
\* has no keys(): AttributeError.
try_block(self, task, context, t) ==
    IF Truthy(context)
    THEN IF context.kind = "dict"
         THEN [ok |-> TRUE,
               result |-> with_context_keys(success_result(self, task, context, t), context)]
         ELSE [ok |-> FALSE, exc |-> "'list' object has no attribute 'keys'"]
    ELSE [ok |-> TRUE, result |-> success_result(self, task, context, t)]

\* The except clause of execute: the mapping it logs and returns.
error_result(task, exc, t) ==
    [status |-> "error", task |-> task, error |-> exc, timestamp |-> t]

\* execute from the await to its return, at clock t: whether an exception
\* leaves the call, the value returned, and the history list afterwards.
execute_reraise(self, hist, task, context, start_time, t) ==
    LET try == try_block(self, task, context, t)
    IN IF try.ok
       THEN [raised |-> FALSE, value |-> try.result,
             history |-> log_execution(self, hist, task, try.result, t - start_time, t)]
       ELSE [raised |-> TRUE, value |-> [exc |-> try.exc],
             history |-> log_execution(self, hist, task,
                                       error_result(task, try.exc, t), t - start_time, t)]

execute_no_error_log(self, hist, task, context, start_time, t) ==
    LET try == try_block(self, task, context, t)
    IN IF try.ok
       THEN [raised |-> FALSE, value |-> try.result,
             history |-> log_execution(self, hist, task, try.result, t - start_time, t)]
       ELSE [raised |-> FALSE, value |-> error_result(task, try.exc, t),
             history |-> hist]

execute(self, hist, task, context, start_time, t) ==
    LET try == try_block(self, task, context, t)
    IN IF try.ok
       THEN [raised |-> FALSE, value |-> try.result,
             history |-> log_execution(self, hist, task, try.result, t - start_time, t)]
       ELSE LET err == error_result(task, try.exc, t)
            IN [raised |-> FALSE, value |-> err,
                history |-> log_execution(self, hist, task, err, t - start_time, t)]

\* analyze / generate: the arguments of the execute call they delegate to.
analyze_no_context(data) == [task |-> "Analyze: " \o data, context |-> None]

analyze(data) ==
    [task |-> "Analyze: " \o data,
     context |-> Dict(<< <<"operation", "analyze">> >>)]

generate(prompt) ==
    [task |-> "Generate: " \o prompt,
     context |-> Dict(<< <<"operation", "generate">> >>)]

----------------------------------------------------------------------------
(* State of one agent. *)

\* The history list of agent a, as the agent sees it.
HistoryOf(a) == heap[agents[a].execution_history]

Init ==
    LET made == SampleAgentInit(<<>>, Dict(<<>>))
    IN /\ agents = <<made.agent>>
       /\ heap = made.heap
       /\ pending = <<>>
       /\ now = 0
       /\ returned = [op |-> "SampleAgent"]
       /\ view = 0
       /\ started = <<>>
       /\ finished = <<>>
       /\ cleared = FALSE
       /\ environ = Unset
       /\ dotenv = Unset
       /\ settings = Settings(Unset, Unset)

\* A call may begin while the clock can still cover its delay.
CanStart == Len(started) < MaxCalls /\ now + SleepTicks <= MaxTime

\* The first half of execute: start_time is read, then the await suspends.
Suspend(a, task, context, via, arg) ==
    /\ pending' = Append(pending, [id |-> Len(started) + 1, agent |-> a, task |-> task,
                                   context |-> context, start_time |-> now,
                                   via |-> via, arg |-> arg])
    /\ started' = Append(started, task)

ExecuteStart(a, task, context) ==
    /\ CanStart
    /\ Suspend(a, task, context, "execute", task)
    /\ UNCHANGED cfg /\ UNCHANGED <<agents, heap, now, returned, view, finished, cleared>>

AnalyzeStart(a, data) ==
    /\ CanStart
    /\ Suspend(a, analyze(data).task, analyze(data).context, "analyze", data)
    /\ UNCHANGED cfg /\ UNCHANGED <<agents, heap, now, returned, view, finished, cleared>>

GenerateStart(a, prompt) ==
    /\ CanStart
    /\ Suspend(a, generate(prompt).task, generate(prompt).context, "generate", prompt)
    /\ UNCHANGED cfg /\ UNCHANGED <<agents, heap, now, returned, view, finished, cleared>>

\* What the awaiting caller of call c receives.  A request handler wraps the
\* result in its response, or turns an exception into a 500.
Response(c, out) ==
    IF c.via \in {"execute", "analyze", "generate"}
    THEN [op |-> c.via, arg |-> c.arg, task |-> c.task, context |-> c.context,
          agent |-> c.agent, out |-> out]
    ELSE [op |-> c.via, arg |-> c.arg, task |-> c.task, context |-> c.context,
          agent |-> c.agent, out |-> out,
          response |-> IF out.raised
                       THEN [status_code |-> 500, detail |-> out.value.exc]
                       ELSE [status |-> "success", result |-> out.value]]

\* The second half of execute: the delay is over, the call runs to its return.
ExecuteResume(i) ==
    LET c == pending[i]
        self == agents[c.agent]
        ref == self.execution_history
        out == execute(self, heap[ref], c.task, c.context, c.start_time, now)
    IN /\ now >= c.start_time + SleepTicks
       /\ heap' = [heap EXCEPT ![ref] = out.history]
       /\ pending' = Remove(pending, i)
       /\ returned' = Response(c, out)
       /\ finished' = Append(finished, c.id)
       /\ UNCHANGED cfg /\ UNCHANGED <<agents, now, view, started, cleared>>

GetExecutionHistory(a) ==
    /\ view' = get_execution_history(agents[a])
    /\ returned' = [op |-> "get_execution_history", agent |-> a,
                    ref |-> get_execution_history(agents[a])]
    /\ UNCHANGED cfg /\ UNCHANGED <<agents, heap, pending, now, started, finished, cleared>>

ClearHistory(a) ==
    /\ heap' = [heap EXCEPT ![agents[a].execution_history] = clear_history(@)]
    /\ returned' = [op |-> "clear_history", agent |-> a]
    /\ cleared' = TRUE
    /\ UNCHANGED cfg /\ UNCHANGED <<agents, pending, now, view, started, finished>>

\* Wall-clock time passes, whether or not a call is waiting for it.
Tick ==
    /\ now < MaxTime
    /\ now' = now + 1
    /\ UNCHANGED cfg /\ UNCHANGED <<agents, heap, pending, returned, view, started, finished, cleared>>

Start ==
    \E a \in DOMAIN agents :
        \/ \E x \in ExecuteInputs : ExecuteStart(a, x.task, x.context)
        \/ \E d \in Data : AnalyzeStart(a, d)
        \/ \E p \in Prompts : GenerateStart(a, p)

Resume == \E i \in DOMAIN pending : ExecuteResume(i)

Get == \E a \in DOMAIN agents : GetExecutionHistory(a)

Clear == \E a \in DOMAIN agents : ClearHistory(a)

\* One agent, its calls interleaving at the await.
Next == Start \/ Resume \/ Get \/ Clear \/ Tick

Spec == Init /\ [][Next]_vars

----------------------------------------------------------------------------
(* Sequential use, as in tests/test_agents.py: every call is awaited before *)
(* the caller does anything else.                                           *)

SeqStart == pending = <<>> /\ Start

SeqGet == pending = <<>> /\ Get

SeqClear == pending = <<>> /\ Clear

NextSeq == SeqStart \/ Resume \/ SeqGet \/ SeqClear \/ Tick

SpecSeq == Init /\ [][NextSeq]_vars

----------------------------------------------------------------------------
(* A caller that keeps the list get_execution_history returned and changes  *)
(* it: the list is a plain Python list, so nothing stops it.                *)

Forged ==
    [timestamp |-> 0, agent |-> "caller", task |-> "forged",
     result |-> [status |-> "forged"], duration |-> 0, model |-> "none"]

CallerAppend ==
    /\ view # 0
    /\ Len(heap[view]) < MaxCalls
    /\ heap' = [heap EXCEPT ![view] = Append(@, Forged)]
    /\ UNCHANGED cfg /\ UNCHANGED <<agents, pending, now, returned, view, started, finished, cleared>>

CallerRemove ==
    /\ view # 0
    /\ heap[view] # <<>>
    /\ \E i \in DOMAIN heap[view] : heap' = [heap EXCEPT ![view] = Remove(@, i)]
    /\ UNCHANGED cfg /\ UNCHANGED <<agents, pending, now, returned, view, started, finished, cleared>>

CallerReplace ==
    /\ view # 0
    /\ \E i \in DOMAIN heap[view] :
          /\ heap[view][i] # Forged
          /\ heap' = [heap EXCEPT ![view][i] = Forged]
    /\ UNCHANGED cfg /\ UNCHANGED <<agents, pending, now, returned, view, started, finished, cleared>>

CallerMutates == CallerAppend \/ CallerRemove \/ CallerReplace

NextAlias == Start \/ Resume \/ Get \/ Clear \/ Tick \/ CallerAppend \/ CallerRemove \/ CallerReplace

SpecAlias == Init /\ [][NextAlias]_vars

----------------------------------------------------------------------------
(* The HTTP handlers of api/routes.py.  Each constructs its own agent.      *)

InitApi ==
    /\ agents = <<>>
    /\ heap = <<>>
    /\ pending = <<>>
    /\ now = 0
    /\ returned = [op |-> "startup"]
    /\ view = 0
    /\ started = <<>>
    /\ finished = <<>>
    /\ cleared = FALSE
    /\ environ = Unset
    /\ dotenv = Unset
    /\ settings = Settings(Unset, Unset)

\* agent = SampleAgent(**kwargs) inside a handler.
Construct(kwargs) ==
    LET made == SampleAgentInit(heap, kwargs)
    IN /\ Len(agents) < MaxAgents
       /\ agents' = Append(agents, made.agent)
       /\ heap' = made.heap

execute_agent_task(task, context, agent_config) ==
    /\ CanStart
    /\ Construct(OrEmptyDict(agent_config))
    /\ Suspend(Len(agents) + 1, task, context, "POST /agent/execute", task)
    /\ UNCHANGED cfg /\ UNCHANGED <<now, returned, view, finished, cleared>>

analyze_data(data) ==
    /\ CanStart
    /\ Construct(Dict(<<>>))
    /\ Suspend(Len(agents) + 1, analyze(data).task, analyze(data).context,
               "POST /agent/analyze", data)
    /\ UNCHANGED cfg /\ UNCHANGED <<now, returned, view, finished, cleared>>

generate_content(prompt) ==
    /\ CanStart
    /\ Construct(Dict(<<>>))
    /\ Suspend(Len(agents) + 1, generate(prompt).task, generate(prompt).context,
               "POST /agent/generate", prompt)
    /\ UNCHANGED cfg /\ UNCHANGED <<now, returned, view, finished, cleared>>

get_agent_history ==
    /\ Construct(Dict(<<>>))
    /\ LET history == heap'[get_execution_history(Last(agents'))]
       IN returned' = [op |-> "GET /agent/history",
                       response |-> [status |-> "success", count |-> Len(history),
                                     history |-> history]]
    /\ UNCHANGED cfg /\ UNCHANGED <<pending, now, view, started, finished, cleared>>

ExecuteRequest ==
    \E r \in RequestInputs : execute_agent_task(r.task, r.context, r.agent_config)

AnalyzeRequest == \E d \in Data : analyze_data(d)

GenerateRequest == \E p \in Prompts : generate_content(p)

NextApi ==
    ExecuteRequest \/ AnalyzeRequest \/ GenerateRequest \/ get_agent_history \/ Resume \/ Tick

SpecApi == InitApi /\ [][NextApi]_vars

----------------------------------------------------------------------------
(* Process startup: importing src.config runs settings = Settings().        *)

EnvValues == {"production", "development", "Production", ForbiddenSecret, "s3cret"}
FileValues == {"production", ForbiddenSecret}

Environments == UNION {[D -> EnvValues] : D \in SUBSET SettingNames}
EnvFiles == UNION {[D -> FileValues] : D \in SUBSET SettingNames}

InitSettings ==
    /\ environ \in Environments
    /\ dotenv \in EnvFiles
    /\ settings = [state |-> "unloaded", errors |-> {}]
    /\ agents = <<>>
    /\ heap = <<>>
    /\ pending = <<>>
    /\ now = 0
    /\ returned = [op |-> "startup"]
    /\ view = 0
    /\ started = <<>>
    /\ finished = <<>>
    /\ cleared = FALSE

LoadSettings ==
    /\ settings.state = "unloaded"
    /\ settings' = Settings(environ, dotenv)
    /\ UNCHANGED <<agents, heap, pending, now, returned, view, started, finished, cleared,
                   environ, dotenv>>

NextSettings == LoadSettings

SpecSettings == InitSettings /\ [][NextSettings]_vars

----------------------------------------------------------------------------
(* Properties.  In Spec, SpecSeq and SpecAlias there is one agent, agent 1. *)

History == HistoryOf(1)
TasksOf(hist) == [i \in 1..Len(hist) |-> hist[i].task]
DirectOps == {"execute", "analyze", "generate"}
AttributeErrorText == "'list' object has no attribute 'keys'"

\* Hist' extends Hist by exactly one record at the end.
AppendsOne(before, after) ==
    /\ Len(after) = Len(before) + 1
    /\ SubSeq(after, 1, Len(before)) = before

\* C1: in sequential use of a fresh agent (no clear_history so far), every
\* execute call that has returned, on the success path or on the error path,
\* has added exactly one record: the history is as long as the number of
\* calls made, and its i-th record carries the task of the i-th call.
C1_OneRecordPerCall ==
    ~cleared =>
        /\ Len(History) = Len(started) - Len(pending)
        /\ \A i \in 1..Len(History) : History[i].task = started[i]

C1_Witness ==
    /\ ~cleared
    /\ pending = <<>>
    /\ Len(started) = 2
    /\ Len(History) = 2
    /\ History[1].result.status = "error"
    /\ History[2].result.status = "success"
    /\ History[1].task # History[2].task

\* C2: no call of execute ends by raising to its caller; a call whose
\* processing fails (a non-empty context that is no mapping) returns exactly
\* the mapping {status: "error", task, error: <text>, timestamp}.
C2_FailureReturnedAsData ==
    returned.op \in DirectOps =>
        /\ ~returned.out.raised
        /\ (returned.context.kind = "list" /\ returned.context.items # <<>>) =>
              /\ DOMAIN returned.out.value = {"status", "task", "error", "timestamp"}
              /\ returned.out.value.status = "error"
              /\ returned.out.value.task = returned.task
              /\ returned.out.value.error = AttributeErrorText
              /\ returned.out.value.timestamp \in 0..now

C2_Witness ==
    /\ returned.op = "execute"
    /\ returned.context = ListContext
    /\ ~returned.out.raised
    /\ returned.out.value.status = "error"

\* C3 (as claimed): a caller changing the list it got from
\* get_execution_history leaves the history a later get_execution_history
\* returns unchanged.
C3_ReturnedListIsolated ==
    [][CallerMutates =>
          heap'[get_execution_history(agents'[1])] = heap[get_execution_history(agents[1])]]_vars

\* C4: with calls interleaving at the await (no clear_history so far), every
\* call that has returned has added exactly one record, none is lost or
\* repeated, and the records stand in the order in which the calls returned.
C4_ConcurrentCallsLogInCompletionOrder ==
    ~cleared =>
        /\ Len(History) = Len(finished)
        /\ Len(finished) + Len(pending) = Len(started)
        /\ \A i \in 1..Len(History) : History[i].task = started[finished[i]]
        /\ \A i, j \in 1..Len(finished) : finished[i] = finished[j] => i = j

C4_Witness ==
    /\ ~cleared
    /\ pending = <<>>
    /\ finished = <<2, 1>>
    /\ started[1] # started[2]
    /\ TasksOf(History) = <<started[2], started[1]>>

\* C5: a step of execute, analyze or generate that returns appends one record
\* and keeps all earlier ones in place; clear_history empties the list; every
\* other step (a call beginning, get_execution_history, time passing) leaves
\* it as it is.
C5_AppendOrClearOnly ==
    [][/\ AppendsOne(History, History') \/ ~Resume
       /\ History' = <<>> \/ ~Clear
       /\ History' = History \/ ~(Start \/ Get \/ Tick)]_vars

C5_Witness ==
    /\ cleared
    /\ Len(finished) = 2
    /\ Len(History) = 1
    /\ returned.op \in DirectOps

\* C6: execute(t) without a context returns status "success", task t, the
\* non-empty response "Processed task: " + t, and context_provided false.
C6_SuccessWithoutContext ==
    (returned.op = "execute" /\ returned.context = None) =>
        /\ ~returned.out.raised
        /\ returned.out.value.status = "success"
        /\ returned.out.value.task = returned.arg
        /\ returned.out.value.response = "Processed task: " \o returned.arg
        /\ returned.out.value.response # ""
        /\ returned.out.value.context_provided = FALSE
        /\ "context_keys" \notin DOMAIN returned.out.value

C6_Witness ==
    /\ returned.op = "execute"
    /\ returned.context = None
    /\ returned.arg = ""
    /\ returned.out.value.response = "Processed task: "

\* C7 (as claimed): execute with any mapping as context, the empty one
\* included, returns context_provided true and context_keys, the keys of the
\* mapping in order.
C7_ContextKeysForEveryMapping ==
    (returned.op = "execute" /\ returned.context.kind = "dict") =>
        /\ returned.out.value.context_provided = TRUE
        /\ "context_keys" \in DOMAIN returned.out.value
        /\ returned.out.value.context_keys = Keys(returned.context)

\* C8: clear_history can always be called and leaves the history empty,
\* whatever its length was; a get_execution_history right after it returns an
\* empty list, and the next execute to return makes the history one long.
C8_ClearEmpties ==
    /\ [](/\ \A a \in DOMAIN agents : ENABLED ClearHistory(a)
          /\ returned.op = "clear_history" => History = <<>>)
    /\ [][/\ (returned.op = "clear_history" /\ Get) => heap'[returned'.ref] = <<>>
          /\ (returned.op = "clear_history" /\ Resume) => Len(History') = 1]_vars

C8_Witness ==
    /\ cleared
    /\ Len(finished) = 2
    /\ returned.op = "execute"
    /\ Len(History) = 1
    /\ History[1].task = started[2]

\* C9: analyze(d) and generate(p) make one execute call each, with task
\* "Analyze: " + d and context {operation: analyze}, "Generate: " + p and
\* context {operation: generate}; they return status "success" with
\* context_keys ["operation"], and the call adds one record, whose task is
\* the prefixed string.
C9_Prefix(op) == IF op = "analyze" THEN "Analyze: " ELSE "Generate: "

C9_AnalyzeGenerateDelegate ==
    /\ [](returned.op \in {"analyze", "generate"} =>
            /\ returned.task = C9_Prefix(returned.op) \o returned.arg
            /\ returned.context = Dict(<< <<"operation", returned.op>> >>)
            /\ ~returned.out.raised
            /\ returned.out.value.status = "success"
            /\ returned.out.value.task = returned.task
            /\ returned.out.value.context_keys = <<"operation">>
            /\ Last(History).task = returned.task)
    /\ [][/\ (/\ started' # started
              /\ \E a \in DOMAIN agents, x \in Data \cup Prompts :
                    AnalyzeStart(a, x) \/ GenerateStart(a, x)) =>
                 /\ Len(started') = Len(started) + 1
                 /\ Len(pending') = Len(pending) + 1
          /\ (returned'.op \in {"analyze", "generate"} /\ Resume) =>
                 /\ AppendsOne(History, History')
                 /\ Last(History').task = C9_Prefix(returned'.op) \o returned'.arg]_vars

C9_Witness ==
    /\ Len(History) = 2
    /\ History[1].task = "Analyze: test data"
    /\ History[2].task = "Generate: test prompt"
    /\ returned.op = "generate"
    /\ returned.out.value.context_keys = <<"operation">>

\* C10: whatever requests to the execute, analyze and generate endpoints came
\* before, GET /agent/history answers count 0 and an empty history.
C10_HistoryEndpointEmpty ==
    returned.op = "GET /agent/history" =>
        /\ returned.response.status = "success"
        /\ returned.response.count = 0
        /\ returned.response.history = <<>>

C10_Witness ==
    /\ returned.op = "GET /agent/history"
    /\ returned.response.count = 0
    /\ \E a \in DOMAIN agents : HistoryOf(a) # <<>>
    /\ finished # <<>>
    /\ pending # <<>>

\* The value a setting has from its sources.
C11_Given(name) ==
    IF name \in DOMAIN environ THEN environ[name]
    ELSE IF name \in DOMAIN dotenv THEN dotenv[name]
    ELSE IF name = "APP_ENV" THEN "development" ELSE "change-me-in-production"

C11_MustFail ==
    /\ C11_Given("APP_ENV") = "production"
    /\ \/ C11_Given("SECRET_KEY") = "change-me-in-production"
       \/ C11_Given("JWT_SECRET") = "change-me-in-production"

\* C11: constructing the settings fails exactly when APP_ENV is "production"
\* and SECRET_KEY or JWT_SECRET holds "change-me-in-production", be that value
\* set or the default of an unset variable; otherwise it succeeds and keeps
\* the values as given.
C11_FailsIffForbiddenSecretInProduction ==
    settings.state # "unloaded" =>
        /\ settings.state = "failed" <=> C11_MustFail
        /\ settings.state = "failed" =>
              settings.errors =
                  {n \in {"SECRET_KEY", "JWT_SECRET"} :
                      C11_Given(n) = "change-me-in-production"}
        /\ settings.state = "loaded" =>
              /\ settings.APP_ENV = C11_Given("APP_ENV")
              /\ settings.SECRET_KEY = C11_Given("SECRET_KEY")
              /\ settings.JWT_SECRET = C11_Given("JWT_SECRET")

C11_Witness ==
    /\ settings.state = "failed"
    /\ settings.errors = {"SECRET_KEY"}
    /\ "SECRET_KEY" \notin DOMAIN environ \cup DOMAIN dotenv
    /\ "JWT_SECRET" \in DOMAIN environ
    /\ "APP_ENV" \in DOMAIN environ
    /\ C11_Given("APP_ENV") = "production"

====
